---- MODULE Spec2Model ----
(***************************************************************************)
(* The valuation and accounting engine of pea-tracker                      *)
(* (app/portfolio/services.py, app/portfolio/routes.py): the weighted      *)
(* average cost fold over the transaction log, the transaction boundary    *)
(* (add / delete), the daily snapshot builder and the gap reconciler.      *)
(*                                                                         *)
(* Specifications.  SpecFold folds one date-ordered row after another.     *)
(* SpecDay is one build of the snapshots over any stored log and price     *)
(* table.  Spec is the snapshot engine over a stored log: the days pass,   *)
(* prices arrive, compute_snapshots and ensure_snapshots_uptodate run.     *)
(* SpecTx is the web layer: add_transaction, delete_transaction and their  *)
(* background threads.                                                     *)
(*                                                                         *)
(* Numbers.  The accumulators of the folds are decimal.Decimal values, so  *)
(* every +, -, * and / is the exact result rounded half-even to the        *)
(* precision of the decimal context.  Python's context keeps 28            *)
(* significant digits; the model keeps Prec digits, so that the rounding   *)
(* of a division such as 5 / 3 happens inside TLC's integers.  A decimal   *)
(* is a record [c, e] that stands for c * 10^e, kept normalised (no        *)
(* trailing zero in c), so that equal values are equal records.            *)
(***************************************************************************)
EXTENDS Integers, Sequences, FiniteSets

\* ------------------------------------------------------------------ bounds
Prec == 3         \* significant digits of the decimal context (28 in Python)
MaxLen == 3       \* transactions folded by the pure fold specification
MaxQty == 3       \* largest quantity of one transaction
MaxDay == 3       \* calendar days 1..MaxDay
MaxTx == 2        \* Transaction rows inserted
MaxPrices == 2    \* DailyPrice rows
MaxTasks == 1     \* background threads started and not yet run

LookbackDays == 7 \* timedelta(days=7) of the price prefetch
BackfillBuffer == 5 \* timedelta(days=5) of the price download

Tickers == {1, 2}                  \* securities
PriceValues == {1, 2}              \* price_per_share of a transaction
FeeValues == {0, 1}                \* fees of a transaction
Sides == {"BUY", "SELL"}
CloseValues == {1, 2}              \* close of a DailyPrice row
FetchedCloses == {1}               \* close of a row the cron run stores
SysTickers == {1}                  \* securities the user trades
Quantities == {1}                  \* quantity of a transaction form
DayQuantities == {1, 2}            \* quantity of a row given to one build
FormPrices == {2}                  \* price_per_share of a transaction form
FormFees == {1}                    \* fees of a transaction form

\* --------------------------------------------------------- decimal numbers
RECURSIVE Pow10(_)
Pow10(n) == IF n <= 0 THEN 1 ELSE 10 * Pow10(n - 1)

Abs(x) == IF x < 0 THEN 0 - x ELSE x

Sgn(x) == IF x < 0 THEN 0 - 1 ELSE 1

RECURSIVE NumDigits(_)
NumDigits(n) == IF n < 10 THEN 1 ELSE 1 + NumDigits(n \div 10)

RECURSIVE Norm(_, _)
Norm(c, e) ==
    IF c = 0 THEN [c |-> 0, e |-> 0]
    ELSE IF Abs(c) % 10 = 0 THEN Norm(Sgn(c) * (Abs(c) \div 10), e + 1)
    ELSE [c |-> c, e |-> e]

\* The decimal of an integer (Decimal(n)).
Dec(n) == Norm(n, 0)

Zero == Dec(0)

\* The context's rounding: c * 10^e, with `sticky` telling that the exact
\* value has further non-zero digits below c, rounded half-even to Prec
\* significant digits.
RoundCtx(c, e, sticky) ==
    LET n == Abs(c)
        d == NumDigits(n)
    IN  IF d <= Prec THEN Norm(c, e)
        ELSE LET drop == d - Prec
                 head == n \div Pow10(drop)
                 tail == n % Pow10(drop)
                 half == 5 * Pow10(drop - 1)
                 up   == \/ tail > half
                         \/ tail = half /\ (sticky \/ head % 2 = 1)
             IN  Norm(Sgn(c) * (head + (IF up THEN 1 ELSE 0)), e + drop)

Min2(a, b) == IF a <= b THEN a ELSE b

\* Decimal.__add__: the exact sum, rounded by the context.
DecAdd(a, b) ==
    LET e == Min2(a.e, b.e)
    IN  RoundCtx(a.c * Pow10(a.e - e) + b.c * Pow10(b.e - e), e, FALSE)

DecNeg(a) == [c |-> 0 - a.c, e |-> a.e]

\* Decimal.__sub__
DecSub(a, b) == DecAdd(a, DecNeg(b))

\* Decimal.__mul__: the exact product, rounded by the context.
DecMul(a, b) == RoundCtx(a.c * b.c, a.e + b.e, FALSE)

\* The least k with n * 10^k >= m * 10^Prec: the quotient then has more
\* than Prec digits, and the remainder is the sticky part.
RECURSIVE DivShift(_, _, _)
DivShift(n, m, k) ==
    IF n * Pow10(k) >= m * Pow10(Prec) THEN k ELSE DivShift(n, m, k + 1)

\* Decimal.__truediv__ (b # 0): the quotient correctly rounded.
DecDiv(a, b) ==
    IF a.c = 0 THEN Zero
    ELSE LET n == Abs(a.c)
             m == Abs(b.c)
             k == DivShift(n, m, 0)
             q == (n * Pow10(k)) \div m
             r == (n * Pow10(k)) % m
         IN  RoundCtx(Sgn(a.c) * Sgn(b.c) * q, a.e - b.e - k, r # 0)

\* Comparisons are exact.
DecGt(a, b) ==
    LET e == Min2(a.e, b.e)
    IN  a.c * Pow10(a.e - e) > b.c * Pow10(b.e - e)

DecGe(a, b) == a = b \/ DecGt(a, b)

\* ------------------------------------------------------------ transactions
\* A Transaction row: the form of add_transaction gives quantity > 0,
\* price_per_share > 0 and fees >= 0.
TxRow(tk, ty, q, p, f, d) ==
    [ticker_id |-> tk, type |-> ty, quantity |-> q,
     price_per_share |-> p, fees |-> f, date |-> d]

\* holdings: defaultdict(lambda: {qty: 0, total_cost: 0, realized_pnl: 0})
NewHolding == [qty |-> Zero, total_cost |-> Zero, realized_pnl |-> Zero]

\* h = holdings[tx.ticker_id]: reading a missing key of the defaultdict
\* creates the entry.
Touch(holdings, tk) ==
    IF tk \in DOMAIN holdings THEN holdings
    ELSE [t \in DOMAIN holdings \cup {tk} |->
            IF t = tk THEN NewHolding ELSE holdings[t]]

\* The body of the loop of _compute_holdings for one BUY.
ApplyBuy(h, tx) ==
    [h EXCEPT
       !.total_cost = DecAdd(@, DecAdd(DecMul(Dec(tx.quantity), Dec(tx.price_per_share)),
                                       Dec(tx.fees))),
       !.qty = DecAdd(@, Dec(tx.quantity))]

\* A SELL branch that enforces bounds: the quantity sold is clamped at the
\* quantity held.
ApplySellClamped(h, tx) ==
    IF DecGt(h.qty, Zero)
    THEN LET pru == DecDiv(h.total_cost, h.qty)
             sold == IF DecGt(Dec(tx.quantity), h.qty) THEN h.qty ELSE Dec(tx.quantity)
         IN  [h EXCEPT
                !.realized_pnl =
                    DecAdd(@, DecSub(DecMul(DecSub(Dec(tx.price_per_share), pru), sold),
                                     Dec(tx.fees))),
                !.total_cost = DecSub(@, DecMul(pru, sold)),
                !.qty = DecSub(@, sold)]
    ELSE h

\* The body of the loop of _compute_holdings for one SELL.
ApplySell(h, tx) ==
    IF DecGt(h.qty, Zero)
    THEN LET pru == DecDiv(h.total_cost, h.qty)
         IN  [h EXCEPT
                !.realized_pnl =
                    DecAdd(@, DecSub(DecMul(DecSub(Dec(tx.price_per_share), pru),
                                            Dec(tx.quantity)),
                                     Dec(tx.fees))),
                !.total_cost = DecSub(@, DecMul(pru, Dec(tx.quantity))),
                !.qty = DecSub(@, Dec(tx.quantity))]
    ELSE h

\* A fold that keeps only the open positions: the entry of a ticker whose
\* quantity is 0 after the row is dropped.
ApplyTxOpenOnly(holdings, tx) ==
    LET hs == Touch(holdings, tx.ticker_id)
        h  == hs[tx.ticker_id]
        n  == IF tx.type = "BUY" THEN ApplyBuy(h, tx)
              ELSE IF tx.type = "SELL" THEN ApplySell(h, tx)
              ELSE h
    IN  [t \in {u \in DOMAIN hs : u # tx.ticker_id \/ n.qty # Zero} |->
            IF t = tx.ticker_id THEN n ELSE hs[t]]

\* One iteration of `for tx in transactions` of _compute_holdings.
ApplyTx(holdings, tx) ==
    LET hs == Touch(holdings, tx.ticker_id)
        h  == hs[tx.ticker_id]
    IN  [hs EXCEPT ![tx.ticker_id] =
            IF tx.type = "BUY" THEN ApplyBuy(h, tx)
            ELSE IF tx.type = "SELL" THEN ApplySell(h, tx)
            ELSE h]

EmptyHoldings == [t \in {} |-> NewHolding]

\* The loop of _compute_holdings over the rows its query returned.
RECURSIVE HoldingsFold(_)
HoldingsFold(transactions) ==
    IF transactions = <<>> THEN EmptyHoldings
    ELSE ApplyTx(HoldingsFold(SubSeq(transactions, 1, Len(transactions) - 1)),
                 transactions[Len(transactions)])

\* ---------------------------------------------------------------- queries
Days == 1..MaxDay

\* The permutations of 1..n.
Perms(n) == {f \in [1..n -> 1..n] : \A i, j \in 1..n : f[i] = f[j] => i = j}

\* Transaction.query.filter_by(user_id=...).order_by(Transaction.date).all():
\* the rows sorted by date.  The statement names no second sort key, so the
\* database may return rows of one date in any order: every date-sorted
\* arrangement of the stored rows is a possible result.
OrderByDate(rows) ==
    LET n == Len(rows)
    IN  {[i \in 1..n |-> rows[f[i]]] : f \in
           {g \in Perms(n) :
              \A i \in 1..n : i < n => rows[g[i]].date <= rows[g[i + 1]].date}}

\* sum(BUY quantities) - sum(SELL quantities) of one security: the SQL
\* aggregate of _quantity_held, over all trade dates.
RECURSIVE _quantity_held(_, _)
_quantity_held(rows, ticker_id) ==
    IF rows = <<>> THEN 0
    ELSE LET tx == rows[Len(rows)]
             rest == _quantity_held(SubSeq(rows, 1, Len(rows) - 1), ticker_id)
         IN  IF tx.ticker_id # ticker_id THEN rest
             ELSE IF tx.type = "BUY" THEN rest + tx.quantity
             ELSE rest - tx.quantity

\* ---------------------------------------------------------------- prices
NoRow == 0    \* no DailyPrice row for (ticker, date)

\* The number of DailyPrice rows.
PriceRows(pr) == Cardinality({k \in DOMAIN pr : pr[k] # NoRow})

\* ------------------------------------------------------ compute_snapshots
\* all_ticker_ids = list({tx.ticker_id for tx in transactions})
AllTickerIds(transactions) ==
    {transactions[i].ticker_id : i \in 1..Len(transactions)}

\* price_map: the DailyPrice rows of the traded tickers dated in
\* [start - 7 days, end].
PriceMap(pr, tids, start, end) ==
    {k \in DOMAIN pr :
        /\ pr[k] # NoRow
        /\ k[1] \in tids
        /\ k[2] >= start - LookbackDays
        /\ k[2] <= end}

\* A builder without the seed query: no price is known before start.
SeedPricesNone(pr, tids, start) == [t \in {} |-> NoRow]

\* The LOCF seed: per traded ticker, the close of its latest row dated
\* before start (no entry for a ticker without such a row).
SeedPrices(pr, tids, start) ==
    LET before(t) == {d \in Days : d < start /\ pr[<<t, d>>] # NoRow}
        maxd(t) == CHOOSE d \in before(t) : \A x \in before(t) : x <= d
    IN  [t \in {u \in tids : before(u) # {}} |-> pr[<<t, maxd(t)>>]]

\* One day of the loop: `if key in price_map: last_known_price[tid] = ...`.
UpdateLastKnown(lkp, pr, pmap, tids, current) ==
    LET hit == {t \in tids : <<t, current>> \in pmap}
    IN  [t \in DOMAIN lkp \cup hit |->
            IF t \in hit THEN pr[<<t, current>>] ELSE lkp[t]]

\* last_known_price when the loop has handled day `current` (start <= current).
RECURSIVE LastKnownPrice(_, _, _, _, _)
LastKnownPrice(pr, tids, start, end, current) ==
    UpdateLastKnown(
        IF current = start THEN SeedPrices(pr, tids, start)
        ELSE LastKnownPrice(pr, tids, start, end, current - 1),
        pr, PriceMap(pr, tids, start, end), tids, current)

NewSnapHolding == [qty |-> Zero, cost |-> Zero]

EmptySnapHoldings == [t \in {} |-> NewSnapHolding]

\* The inline fold of compute_snapshots: one transaction.
SnapApplyTx(holdings, tx) ==
    LET hs == IF tx.ticker_id \in DOMAIN holdings THEN holdings
              ELSE [t \in DOMAIN holdings \cup {tx.ticker_id} |->
                      IF t = tx.ticker_id THEN NewSnapHolding ELSE holdings[t]]
        h  == hs[tx.ticker_id]
    IN  [hs EXCEPT ![tx.ticker_id] =
            IF tx.type = "BUY"
            THEN [cost |-> DecAdd(h.cost,
                                  DecAdd(DecMul(Dec(tx.quantity), Dec(tx.price_per_share)),
                                         Dec(tx.fees))),
                  qty |-> DecAdd(h.qty, Dec(tx.quantity))]
            ELSE IF tx.type = "SELL" /\ DecGt(h.qty, Zero)
            THEN LET pru == DecDiv(h.cost, h.qty)
                 IN  [cost |-> DecSub(h.cost, DecMul(pru, Dec(tx.quantity))),
                      qty |-> DecSub(h.qty, Dec(tx.quantity))]
            ELSE h]

\* The inline fold without its `break`: every row is folded for every day.
PrefixWhole(transactions, current) == transactions

\* `for tx in transactions: if tx.date > current: break`: the rows folded
\* are those before the first row dated after current.
RECURSIVE PrefixUpTo(_, _)
PrefixUpTo(transactions, current) ==
    IF transactions = <<>> \/ Head(transactions).date > current THEN <<>>
    ELSE <<Head(transactions)>> \o PrefixUpTo(Tail(transactions), current)

RECURSIVE SnapFold(_)
SnapFold(prefix) ==
    IF prefix = <<>> THEN EmptySnapHoldings
    ELSE SnapApplyTx(SnapFold(SubSeq(prefix, 1, Len(prefix) - 1)), prefix[Len(prefix)])

\* The keys of a holdings dict in insertion order: the tickers of the folded
\* rows by first occurrence.
RECURSIVE KeyOrder(_)
KeyOrder(prefix) ==
    IF prefix = <<>> THEN <<>>
    ELSE LET ks == KeyOrder(SubSeq(prefix, 1, Len(prefix) - 1))
             t  == prefix[Len(prefix)].ticker_id
         IN  IF \E i \in 1..Len(ks) : ks[i] = t THEN ks ELSE Append(ks, t)

\* last_known_price.get(tid, Decimal(0))
PriceOf(lkp, tid) == IF tid \in DOMAIN lkp THEN Dec(lkp[tid]) ELSE Zero

\* `for tid, h in holdings.items(): if h["qty"] > 0: ...` of one day.
RECURSIVE SnapTotals(_, _, _)
SnapTotals(keys, holdings, lkp) ==
    IF keys = <<>> THEN [total_value |-> Zero, total_invested |-> Zero]
    ELSE LET acc == SnapTotals(SubSeq(keys, 1, Len(keys) - 1), holdings, lkp)
             tid == keys[Len(keys)]
             h   == holdings[tid]
         IN  IF DecGt(h.qty, Zero)
             THEN [total_invested |-> DecAdd(acc.total_invested, h.cost),
                   total_value |-> DecAdd(acc.total_value, DecMul(h.qty, PriceOf(lkp, tid)))]
             ELSE acc

\* The four numeric fields of a row from the two totals.
SnapRow(current, totals) ==
    [date |-> current,
     total_value |-> totals.total_value,
     total_invested |-> totals.total_invested,
     total_pnl |-> DecSub(totals.total_value, totals.total_invested),
     total_pnl_pct |->
        IF DecGt(totals.total_invested, Zero)
        THEN DecMul(DecSub(DecDiv(totals.total_value, totals.total_invested), Dec(1)),
                    Dec(100))
        ELSE Zero]

\* One iteration of `while current <= end`: the dict appended to
\* snapshots_to_upsert.
SnapshotOfDay(transactions, pr, start, end, current) ==
    LET prefix == PrefixUpTo(transactions, current)
        lkp == LastKnownPrice(pr, AllTickerIds(transactions), start, end, current)
    IN  SnapRow(current, SnapTotals(KeyOrder(prefix), SnapFold(prefix), lkp))

\* An upsert that never looks for the row of the date.
UpsertOneAppend(rows, s) == Append(rows, s)

\* The upsert of one computed day: the row of that date is overwritten in
\* place, or a row is added.
UpsertOne(rows, s) ==
    IF \E i \in 1..Len(rows) : rows[i].date = s.date
    THEN LET i == CHOOSE j \in 1..Len(rows) :
                     /\ rows[j].date = s.date
                     /\ \A k \in 1..Len(rows) : rows[k].date = s.date => j <= k
         IN  [rows EXCEPT ![i] = s]
    ELSE Append(rows, s)

\* A builder that writes a row only for the days some traded ticker has a
\* price row.
RECURSIVE UpsertTradingDays(_, _, _, _, _, _)
UpsertTradingDays(rows, transactions, pr, start, end, current) ==
    IF current < start THEN rows
    ELSE LET done == UpsertTradingDays(rows, transactions, pr, start, end, current - 1)
         IN  IF \E t \in AllTickerIds(transactions) : pr[<<t, current>>] # NoRow
             THEN UpsertOne(done, SnapshotOfDay(transactions, pr, start, end, current))
             ELSE done

\* `for s in snapshots_to_upsert`, for the days start..current.
RECURSIVE UpsertDays(_, _, _, _, _, _)
UpsertDays(rows, transactions, pr, start, end, current) ==
    IF current < start THEN rows
    ELSE UpsertOne(UpsertDays(rows, transactions, pr, start, end, current - 1),
                   SnapshotOfDay(transactions, pr, start, end, current))

NoDate == 0   \* from_date=None

\* A builder that empties the table of a user without transactions.
ComputeOrClear(rows, transactions, pr, from_date, end) ==
    IF transactions = <<>> THEN <<>>
    ELSE LET start == IF from_date # 0 THEN from_date ELSE transactions[1].date
         IN  IF start > end THEN rows
             ELSE UpsertDays(rows, transactions, pr, start, end, end)

\* compute_snapshots(user_id, from_date) on the rows its query returned:
\* the snapshot table after the commit.
compute_snapshots(rows, transactions, pr, from_date, end) ==
    IF transactions = <<>> THEN rows
    ELSE LET start == IF from_date # NoDate THEN from_date ELSE transactions[1].date
         IN  IF start > end THEN rows
             ELSE UpsertDays(rows, transactions, pr, start, end, end)

\* ------------------------------------------------ ensure_snapshots_uptodate

RowDates(rows) == {rows[i].date : i \in 1..Len(rows)}

SetMin(S) == CHOOSE x \in S : \A y \in S : x <= y

SetMax(S) == CHOOSE x \in S : \A y \in S : y <= x

NoCall == 0 - 1   \* no compute_snapshots call

\* A reconciler that looks at today's row only.
EnsureFromTodayOnly(rows, transactions, end) ==
    IF transactions = <<>> THEN NoCall
    ELSE IF transactions[1].date > end THEN NoCall
    ELSE IF end \notin RowDates(rows) THEN end
    ELSE NoCall

\* A reconciler that recomputes from the latest missing date.
EnsureFromLatest(rows, transactions, end) ==
    IF transactions = <<>> THEN NoCall
    ELSE LET first_date == transactions[1].date
             missing == {d \in Days : d >= first_date /\ d <= end} \ RowDates(rows)
         IN  IF first_date > end THEN NoCall
             ELSE IF missing # {} THEN SetMax(missing)
             ELSE NoCall

\* ensure_snapshots_uptodate(user_id): the from_date of the recompute it
\* asks for, or NoCall when it returns without one.

EnsureFrom(rows, transactions, end) ==
    IF transactions = <<>> THEN NoCall
    ELSE LET first_date == transactions[1].date
             existing_dates == {d \in RowDates(rows) : d >= first_date /\ d <= end}
             expected_dates == {d \in Days : d >= first_date /\ d <= end}
             missing == expected_dates \ existing_dates
         IN  IF first_date > end THEN NoCall
             ELSE IF missing # {} THEN SetMin(missing)
             ELSE IF end \notin existing_dates THEN end
             ELSE NoCall

\* ------------------------------------------------------------------- state
VARIABLES
    flog,       \* pure fold: the date-ordered transactions folded so far
    fholdings,  \* pure fold: the holdings dict after folding flog
    today,      \* date.today()
    txs,        \* the user's Transaction rows, in creation order
    prices,     \* DailyPrice: (ticker, date) -> close, NoRow without a row
    snaps,      \* the user's PortfolioSnapshot rows, in insertion order
    tasks,      \* background threads started and not yet run
    tx_seq,     \* Transaction rows inserted so far (the next row id)
    last,       \* the operation that ran last (history)
    runs,       \* compute_snapshots runs between their queries and their commit
    backfill_lock, \* tasks._backfill_lock is held
    workers,    \* _run threads of run_backfill_async that have not ended
    queue,      \* the BackfillQueue rows, by id
    dividends,  \* Dividend: (ticker, date) -> amount_per_share, NoRow without a row
    returned    \* what the last read-only function returned

foldvars == <<flog, fholdings>>

sysvars == <<today, txs, prices, snaps, tasks, tx_seq, last>>

concvars == <<runs, backfill_lock, workers, queue>>

viewvars == <<dividends, returned>>

vars == <<flog, fholdings, today, txs, prices, snaps, tasks, tx_seq, last,
          runs, backfill_lock, workers, queue, dividends, returned>>

\* What `last` records: the operation and the from_date of the
\* compute_snapshots call it made (NoDate for None, NoCall for no call).
Did(op, from) == [op |-> op, from |-> from]

NoDividends == [k \in Tickers \X Days |-> NoRow]

NoResult == [op |-> "none"]

\* No recompute in flight, the lock free, no pending backfill request.
IdleConc ==
    /\ runs = <<>>
    /\ backfill_lock = FALSE
    /\ workers = 0
    /\ queue = <<>>

\* No dividend row, nothing returned yet.
NoViews ==
    /\ dividends = NoDividends
    /\ returned = NoResult

NoPrices == [k \in Tickers \X Days |-> NoRow]

\* The price tables with at most n rows.
PriceTables(n) ==
    {pr \in [Tickers \X Days -> CloseValues \cup {NoRow}] : PriceRows(pr) <= n}

\* The transaction forms of a form set, as rows.
FormRows(tks, qs, ps, fs) ==
    {TxRow(tk, ty, q, p, f, d) :
        tk \in tks, ty \in Sides, q \in qs, p \in ps, f \in fs, d \in Days}

\* The sequences of length at most n over S.
SeqsUpTo(S, n) == UNION {[1..k -> S] : k \in 0..n}

\* ------------------------------------------------- the fold, one row at a time
InitFold ==
    /\ flog = <<>>
    /\ fholdings = EmptyHoldings
    /\ today = 1
    /\ txs = <<>>
    /\ prices = NoPrices
    /\ snaps = <<>>
    /\ tasks = <<>>
    /\ tx_seq = 0
    /\ last = Did("init", NoCall)
    /\ IdleConc
    /\ NoViews

\* The next row of a date-ordered result: its date is not before the last one.
FoldStep ==
    /\ Len(flog) < MaxLen
    /\ \E tk \in Tickers, ty \in Sides, q \in 1..MaxQty,
          p \in PriceValues, f \in FeeValues :
         LET tx == TxRow(tk, ty, q, p, f, Len(flog) + 1)
         IN  /\ flog' = Append(flog, tx)
             /\ fholdings' = ApplyTx(fholdings, tx)
    /\ UNCHANGED <<sysvars, concvars, viewvars>>

NextFold == FoldStep

SpecFold == InitFold /\ [][NextFold]_vars

\* ----------------------------------------------------- the snapshot engine
RemoveAt(seq, i) == SubSeq(seq, 1, i - 1) \o SubSeq(seq, i + 1, Len(seq))

\* The rows the transaction form can store.
Forms == FormRows(SysTickers, Quantities, FormPrices, FormFees)

\* date.today() moves on.
Tick ==
    /\ today < MaxDay
    /\ today' = today + 1
    /\ last' = Did("tick", NoCall)
    /\ UNCHANGED <<foldvars, concvars, viewvars, txs, prices, snaps, tasks, tx_seq>>

\* The upsert of one downloaded row by fetch_prices_for_tickers.
UpsertPrice(pr, t, d, close) == [pr EXCEPT ![<<t, d>>] = close]

\* The market-data layer (cron run, steps 1-3): the close of a day up to
\* today arrives.
FetchPrices ==
    /\ \E t \in SysTickers, d \in 1..today, close \in FetchedCloses :
         /\ prices[<<t, d>>] # close
         /\ PriceRows(UpsertPrice(prices, t, d, close)) <= MaxPrices
         /\ prices' = UpsertPrice(prices, t, d, close)
    /\ last' = Did("fetch", NoCall)
    /\ UNCHANGED <<foldvars, concvars, viewvars, today, txs, snaps, tasks, tx_seq>>

\* compute_snapshots(user_id, from_date) when its query returns
\* `transactions`.
ComputeSnapshotsAt(from_date, transactions) ==
    /\ snaps' = compute_snapshots(snaps, transactions, prices, from_date, today)
    /\ last' = Did("compute", from_date)
    /\ UNCHANGED <<foldvars, concvars, viewvars, today, txs, prices, tasks, tx_seq>>

\* compute_snapshots called directly: from_date=None by the dashboard and
\* the backfill task, any date by recompute_from.
ComputeSnapshots ==
    \E from_date \in Days \cup {NoDate}, transactions \in OrderByDate(txs) :
        ComputeSnapshotsAt(from_date, transactions)

\* ensure_snapshots_uptodate(user_id), called by the cron run and the
\* dashboard, when it asks for the recompute from from_date (NoCall: for
\* none): the snapshot tables it can leave.
EnsureResults(rows, stored, pr, from_date, end) ==
    IF from_date = NoCall THEN {rows}
    ELSE {compute_snapshots(rows, transactions, pr, from_date, end) :
             transactions \in OrderByDate(stored)}

ensure_snapshots_uptodate ==
    /\ \E first \in OrderByDate(txs) :
         LET from_date == EnsureFrom(snaps, first, today)
         IN  /\ snaps' \in EnsureResults(snaps, txs, prices, from_date, today)
             /\ last' = Did("ensure", from_date)
    /\ UNCHANGED <<foldvars, concvars, viewvars, today, txs, prices, tasks, tx_seq>>

\* The engine over a stored log: the Transaction rows are those some
\* sequence of accepted forms and deletions left; no snapshot is built yet.
Init ==
    /\ flog = <<>>
    /\ fholdings = EmptyHoldings
    /\ today = 1
    /\ txs \in SeqsUpTo(Forms, MaxTx)
    /\ prices = NoPrices
    /\ snaps = <<>>
    /\ tasks = <<>>
    /\ tx_seq = Len(txs)
    /\ last = Did("init", NoCall)
    /\ IdleConc
    /\ NoViews

Next ==
    \/ Tick
    \/ FetchPrices
    \/ ComputeSnapshots
    \/ ensure_snapshots_uptodate

Spec == Init /\ [][Next]_vars

\* ------------------------------------------------- the transaction boundary
\* The rows POST /transactions/add can be asked to store.
TxForms == FormRows(Tickers, Quantities, FormPrices, FormFees)

\* The sell validation of add_transaction: the form is accepted unless it
\* is a SELL of more than _quantity_held.
SellAccepted(rows, tx) ==
    tx.type # "SELL" \/ ~(tx.quantity > _quantity_held(rows, tx.ticker_id))

\* POST /transactions/add with a valid form: the row is committed and the
\* background thread started, or the SELL is refused.
add_transaction ==
    /\ tx_seq < MaxTx
    /\ Len(tasks) < MaxTasks
    /\ \E tx \in TxForms :
         IF SellAccepted(txs, tx)
         THEN /\ txs' = Append(txs, tx)
              /\ tx_seq' = tx_seq + 1
              /\ tasks' = Append(tasks, [kind |-> "add", ticker_id |-> tx.ticker_id,
                                         date |-> tx.date])
              /\ last' = Did("add", NoCall)
         ELSE /\ UNCHANGED <<foldvars, concvars, viewvars, txs, tx_seq, tasks>>
              /\ last' = Did("add_rejected", NoCall)
    /\ UNCHANGED <<foldvars, concvars, viewvars, today, prices, snaps>>

\* POST /transactions/<id>/delete of a stored row.
delete_transaction ==
    /\ Len(tasks) < MaxTasks
    /\ \E i \in 1..Len(txs) :
         /\ txs' = RemoveAt(txs, i)
         /\ tasks' = Append(tasks, [kind |-> "delete", ticker_id |-> txs[i].ticker_id,
                                    date |-> txs[i].date])
    /\ last' = Did("delete", NoCall)
    /\ UNCHANGED <<foldvars, concvars, viewvars, today, prices, snaps, tx_seq>>

\* request_backfill(ticker_id, from_date): whether it queues a request (the
\* ticker has no price row dated from_date or earlier).
BackfillRequested(pr, ticker_id, from_date) ==
    ~ \E d \in Days : d <= from_date /\ pr[<<ticker_id, d>>] # NoRow

\* process_backfill_queue for the queued request: the download
\* returns nothing, or a close of a day in [from_date - 5 days, today].
BackfillResults(pr, ticker_id, from_date, end) ==
    {pr} \cup
    {UpsertPrice(pr, ticker_id, d, close) :
        d \in {x \in Days : x >= from_date - BackfillBuffer /\ x <= end},
        close \in CloseValues}

\* _background_add of task i: request_backfill, process_backfill_queue, then
\* compute_snapshots(user_id, from_date=tx_date).
BackgroundAddAt(i) ==
    /\ tasks[i].kind = "add"
    /\ tasks' = RemoveAt(tasks, i)
    /\ \E pr \in (IF BackfillRequested(prices, tasks[i].ticker_id, tasks[i].date)
                  THEN BackfillResults(prices, tasks[i].ticker_id, tasks[i].date, today)
                  ELSE {prices}) :
         /\ PriceRows(pr) <= MaxPrices
         /\ prices' = pr
         /\ \E transactions \in OrderByDate(txs) :
              snaps' = compute_snapshots(snaps, transactions, pr, tasks[i].date, today)
    /\ last' = Did("background_add", tasks[i].date)
    /\ UNCHANGED <<foldvars, concvars, viewvars, today, txs, tx_seq>>

_background_add == \E i \in 1..Len(tasks) : BackgroundAddAt(i)

\* _background_delete of task i: compute_snapshots(user_id, from_date=tx_date).
BackgroundDeleteAt(i) ==
    /\ tasks[i].kind = "delete"
    /\ tasks' = RemoveAt(tasks, i)
    /\ \E transactions \in OrderByDate(txs) :
         snaps' = compute_snapshots(snaps, transactions, prices, tasks[i].date, today)
    /\ last' = Did("background_delete", tasks[i].date)
    /\ UNCHANGED <<foldvars, concvars, viewvars, today, txs, prices, tx_seq>>

_background_delete == \E i \in 1..Len(tasks) : BackgroundDeleteAt(i)

\* The web layer of one user, started on any day with an empty log.
InitTx ==
    /\ flog = <<>>
    /\ fholdings = EmptyHoldings
    /\ today \in Days
    /\ txs = <<>>
    /\ prices = NoPrices
    /\ snaps = <<>>
    /\ tasks = <<>>
    /\ tx_seq = 0
    /\ last = Did("init", NoCall)
    /\ IdleConc
    /\ NoViews

NextTx ==
    \/ add_transaction
    \/ delete_transaction
    \/ _background_add
    \/ _background_delete

SpecTx == InitTx /\ [][NextTx]_vars

\* ------------------------------------------------- one build of the snapshots
\* The rows the builder is given.
DayForms == FormRows(Tickers, DayQuantities, FormPrices, FormFees)

\* compute_snapshots on an empty snapshot table.
DayBuild ==
    /\ snaps = <<>>
    /\ ComputeSnapshots

\* The builder as a function of its inputs: any stored log, any price
\* table, read on day MaxDay.
InitDay ==
    /\ flog = <<>>
    /\ fholdings = EmptyHoldings
    /\ today = MaxDay
    /\ txs \in SeqsUpTo(DayForms, MaxTx)
    /\ prices \in PriceTables(MaxPrices)
    /\ snaps = <<>>
    /\ tasks = <<>>
    /\ tx_seq = Len(txs)
    /\ last = Did("init", NoCall)
    /\ IdleConc
    /\ NoViews

NextDay == DayBuild

SpecDay == InitDay /\ [][NextDay]_vars


\* ------------------------------------------- recomputes running side by side
MaxRuns == 2   \* compute_snapshots runs between their queries and their commit

\* snapshots_to_upsert of compute_snapshots(user_id, from_date): one computed
\* row per day of [start, today], none when the function returns early.
RECURSIVE DaysToUpsert(_, _, _, _, _)
DaysToUpsert(transactions, pr, start, end, current) ==
    IF current < start THEN <<>>
    ELSE Append(DaysToUpsert(transactions, pr, start, end, current - 1),
                SnapshotOfDay(transactions, pr, start, end, current))

SnapshotsToUpsert(transactions, pr, from_date, end) ==
    IF transactions = <<>> THEN <<>>
    ELSE LET start == IF from_date # NoDate THEN from_date ELSE transactions[1].date
         IN  IF start > end THEN <<>>
             ELSE DaysToUpsert(transactions, pr, start, end, end)

\* The upsert loop over snapshots_to_upsert.
RECURSIVE UpsertBatch(_, _)
UpsertBatch(rows, upserts) ==
    IF upserts = <<>> THEN rows
    ELSE UpsertBatch(UpsertOne(rows, Head(upserts)), Tail(upserts))

\* A loop that commits after every row: a failure leaves the rows written
\* before it.
CommitOutcomesPerRow(rows, upserts) ==
    {[ok |-> TRUE, rows |-> UpsertBatch(rows, upserts)]} \cup
    {[ok |-> FALSE, rows |-> UpsertBatch(rows, SubSeq(upserts, 1, k))] :
        k \in 0..(Len(upserts) - 1)}

\* The upsert loop and its one db.session.commit(): the table holds the whole
\* batch, or, when the flush or the commit raises, what it held before (the
\* thread logs the exception and its session is discarded).
CommitOutcomes(rows, upserts) ==
    {[ok |-> TRUE, rows |-> UpsertBatch(rows, upserts)],
     [ok |-> FALSE, rows |-> rows]}

\* The thread of task i up to the end of the day loop of compute_snapshots:
\* the backfill of _background_add, the queries, snapshots_to_upsert.
BackgroundQueriesAt(i) ==
    /\ Len(runs) < MaxRuns
    /\ tasks' = RemoveAt(tasks, i)
    /\ \E pr \in (IF /\ tasks[i].kind = "add"
                     /\ BackfillRequested(prices, tasks[i].ticker_id, tasks[i].date)
                  THEN BackfillResults(prices, tasks[i].ticker_id, tasks[i].date, today)
                  ELSE {prices}) :
         /\ PriceRows(pr) <= MaxPrices
         /\ prices' = pr
         /\ \E transactions \in OrderByDate(txs) :
              LET upserts == SnapshotsToUpsert(transactions, pr, tasks[i].date, today)
              IN  runs' = IF upserts = <<>> THEN runs
                          ELSE Append(runs, [from |-> tasks[i].date, upserts |-> upserts])
    /\ last' = Did("queries", tasks[i].date)
    /\ UNCHANGED <<foldvars, backfill_lock, workers, queue, viewvars,
                   today, txs, snaps, tx_seq>>

BackgroundQueries == \E i \in 1..Len(tasks) : BackgroundQueriesAt(i)

\* The upsert loop and the commit of run j, the commit succeeding or not.
BackgroundCommitAt(j, ok) ==
    /\ runs' = RemoveAt(runs, j)
    /\ \E out \in CommitOutcomes(snaps, runs[j].upserts) :
         /\ out.ok = ok
         /\ snaps' = out.rows
    /\ last' = Did(IF ok THEN "commit" ELSE "commit_failed", runs[j].from)
    /\ UNCHANGED <<foldvars, backfill_lock, workers, queue, viewvars,
                   today, txs, prices, tasks, tx_seq>>

BackgroundCommit == \E j \in 1..Len(runs) : BackgroundCommitAt(j, TRUE)

BackgroundCommitFails == \E j \in 1..Len(runs) : BackgroundCommitAt(j, FALSE)

\* The closes the price history holds from the first day on: no request
\* asks for a backfill.
CoveredPrices ==
    {pr \in [Tickers \X Days -> CloseValues \cup {NoRow}] :
        \A k \in Tickers \X Days : (pr[k] # NoRow) = (k[2] = 1)}

\* The web layer of one user whose price history covers every day, the
\* threads of the requests running side by side.
InitConc ==
    /\ flog = <<>>
    /\ fholdings = EmptyHoldings
    /\ today \in Days
    /\ txs = <<>>
    /\ prices \in CoveredPrices
    /\ snaps = <<>>
    /\ tasks = <<>>
    /\ tx_seq = 0
    /\ last = Did("init", NoCall)
    /\ IdleConc
    /\ NoViews

NextConc ==
    \/ add_transaction
    \/ delete_transaction
    \/ BackgroundQueries
    \/ BackgroundCommit

SpecConc == InitConc /\ [][NextConc]_vars

\* The same threads over a database whose flush or commit can raise.
NextFail ==
    \/ NextConc
    \/ BackgroundCommitFails

SpecFail == InitConc /\ [][NextFail]_vars

\* ------------------------------------------------------- run_backfill_async
MaxWorkers == 2   \* _run threads alive at once that the model can count

\* A lock taken whether it is held or not.
AcquireAlways(held) == TRUE

\* _backfill_lock.acquire(blocking=False): the lock is taken iff it is free.
AcquireNonBlocking(held) == ~held

MaxItems == 2     \* BackfillQueue rows the model lets request_backfill create

\* The PENDING rows of the BackfillQueue table q, by id.
Pending(q) == {i \in 1..Len(q) : q[i].status = "PENDING"}

\* request_backfill(ticker_id, from_date) on the table q: nothing when the
\* price history covers the date, the PENDING row of the ticker moved to
\* an earlier date, or a new PENDING row. (Requests being made one at a
\* time, a ticker has one PENDING row at most: .first() is that row.)
RequestBackfill(q, pr, ticker_id, from_date) ==
    LET existing == {i \in Pending(q) : q[i].ticker_id = ticker_id}
    IN  IF ~BackfillRequested(pr, ticker_id, from_date) THEN q
        ELSE IF existing # {}
             THEN LET i == CHOOSE x \in existing : TRUE
                  IN  IF from_date < q[i].from_date
                      THEN [q EXCEPT ![i].from_date = from_date]
                      ELSE q
             ELSE Append(q, [ticker_id |-> ticker_id, from_date |-> from_date,
                             status |-> "PENDING"])

\* ticker_dates of process_backfill_queue: the earliest from_date per ticker.
TickerDates(q) ==
    {r \in q : \A o \in q : o.ticker_id = r.ticker_id => r.from_date <= o.from_date}

\* The price tables fetch_prices_for_tickers(ticker_dates) can leave.
RECURSIVE FetchResults(_, _, _)
FetchResults(pr, td, end) ==
    IF td = {} THEN {pr}
    ELSE LET r == CHOOSE x \in td : TRUE
         IN  UNION {FetchResults(p, td \ {r}, end) :
                       p \in BackfillResults(pr, r.ticker_id, r.from_date, end)}

\* fetch_prices_for_tickers then fetch_dividends_for_tickers, as
\* process_backfill_queue calls them: the download fails or is empty (no
\* ticker in the result), the tickers of `result` are returned with the
\* closes stored for them, or a query or a commit of the two functions
\* raises, before or after closes were committed.
FetchOutcomes(pr, td, end) ==
    LET tids == {r.ticker_id : r \in td}
    IN  {[prices |-> pr, result |-> {}, raised |-> FALSE]}
        \cup UNION {{[prices |-> p, result |-> got, raised |-> FALSE] :
                        p \in FetchResults(pr, {r \in td : r.ticker_id \in got}, end)} :
                    got \in (SUBSET tids) \ {{}}}
        \cup {[prices |-> p, result |-> {}, raised |-> TRUE] :
                 p \in FetchResults(pr, td, end)}

\* process_backfill_queue(): what it can leave and return. The PENDING
\* rows are committed as PROCESSING, the fetch runs, and the rows are set to
\* DONE (ticker in the result) or FAILED; an exception of the fetch leaves
\* the function before the second loop.
ProcessBackfillQueue(q, pr, end) ==
    LET pending == Pending(q)
    IN  IF pending = {}
        THEN {[queue |-> q, prices |-> pr, processed |-> 0, raised |-> FALSE]}
        ELSE {[queue |-> [i \in 1..Len(q) |->
                            IF i \notin pending THEN q[i]
                            ELSE [q[i] EXCEPT !.status =
                                     IF o.raised THEN "PROCESSING"
                                     ELSE IF q[i].ticker_id \in o.result THEN "DONE"
                                     ELSE "FAILED"]],
                prices |-> o.prices,
                processed |-> Cardinality(pending),
                raised |-> o.raised] :
                 o \in FetchOutcomes(pr, TickerDates({q[i] : i \in pending}), end)}

\* A lock released at the end of the try block only: it stays held when
\* process_backfill_queue raised.
ReleaseOnSuccess(raised) == raised

\* finally: _backfill_lock.release(): the lock is free after _run on every
\* path.
ReleaseInFinally(raised) == FALSE

\* The first statement of a _background_add thread.
request_backfill ==
    /\ \E ticker_id \in SysTickers, from_date \in 1..today :
         /\ queue' = RequestBackfill(queue, prices, ticker_id, from_date)
         /\ Len(queue') <= MaxItems
         /\ last' = Did("request_backfill", from_date)
    /\ UNCHANGED <<foldvars, runs, backfill_lock, workers, viewvars,
                   today, txs, prices, snaps, tasks, tx_seq>>

\* run_backfill_async(app): the call returns at once when the lock is held,
\* and starts the _run thread holding the lock otherwise.
run_backfill_async ==
    /\ workers < MaxWorkers
    /\ IF AcquireNonBlocking(backfill_lock)
       THEN /\ backfill_lock' = TRUE
            /\ workers' = workers + 1
            /\ last' = Did("backfill_started", NoCall)
       ELSE /\ UNCHANGED <<backfill_lock, workers>>
            /\ last' = Did("backfill_skipped", NoCall)
    /\ UNCHANGED <<foldvars, runs, queue, viewvars,
                   today, txs, prices, snaps, tasks, tx_seq>>

\* The _run thread: process_backfill_queue, compute_snapshots of the user
\* when a request was processed (an exception of it is caught and logged,
\* its rows not committed), and the release of the lock; an exception of
\* process_backfill_queue goes to the outer except.
_run ==
    /\ workers > 0
    /\ \E o \in ProcessBackfillQueue(queue, prices, today) :
         /\ PriceRows(o.prices) <= MaxPrices
         /\ prices' = o.prices
         /\ queue' = o.queue
         /\ IF ~o.raised /\ o.processed > 0
            THEN \E transactions \in OrderByDate(txs) :
                   snaps' \in {snaps,
                               compute_snapshots(snaps, transactions, o.prices, NoDate, today)}
            ELSE snaps' = snaps
         /\ backfill_lock' = ReleaseInFinally(o.raised)
         /\ last' = Did(IF o.raised THEN "backfill_failed" ELSE "backfill_run",
                        IF ~o.raised /\ o.processed > 0 THEN NoDate ELSE NoCall)
    /\ workers' = workers - 1
    /\ UNCHANGED <<foldvars, runs, viewvars, today, txs, tasks, tx_seq>>

\* The backfill task over a stored log, on the last day.
InitBackfill ==
    /\ flog = <<>>
    /\ fholdings = EmptyHoldings
    /\ today = MaxDay
    /\ txs \in SeqsUpTo(Forms, MaxTx)
    /\ prices = NoPrices
    /\ snaps = <<>>
    /\ tasks = <<>>
    /\ tx_seq = Len(txs)
    /\ last = Did("init", NoCall)
    /\ IdleConc
    /\ NoViews

NextBackfill ==
    \/ request_backfill
    \/ run_backfill_async
    \/ _run

SpecBackfill == InitBackfill /\ [][NextBackfill]_vars

\* The backfill task over the log of at most one form.
InitQueue ==
    /\ flog = <<>>
    /\ fholdings = EmptyHoldings
    /\ today = MaxDay
    /\ txs \in SeqsUpTo(TxForms, 1)
    /\ prices = NoPrices
    /\ snaps = <<>>
    /\ tasks = <<>>
    /\ tx_seq = Len(txs)
    /\ last = Did("init", NoCall)
    /\ IdleConc
    /\ NoViews

SpecQueue == InitQueue /\ [][NextBackfill]_vars

\* The thread run_backfill_async started is scheduled: a started _run runs.
SpecQueueLive == SpecQueue /\ WF_vars(_run)

\* ------------------------------------------------------------ get_positions
MaxPos == 3        \* Transaction rows of the logs get_positions is read over
MaxPosPrices == 3  \* DailyPrice rows of the tables get_positions is read over
FirstPriceDay == MaxDay - 1   \* the first day of those DailyPrice rows

PosTickers == {1, 2, 3}

Epsilon == [c |-> 1, e |-> 0 - 4]   \* Decimal("0.0001")

\* The rows without ORDER BY, as they were created.
OrderByCreation(rows) == {rows}

\* The rows _compute_holdings folds: those of
\* Transaction.query.filter_by(user_id=...).order_by(Transaction.date).all().
HoldingsQuery(rows) == OrderByDate(rows)

\* The rank-1 and rank-2 DailyPrice rows of a ticker by date descending.
PriceLookup(pr, t) ==
    LET ds == {d \in Days : <<t, d>> \in DOMAIN pr /\ pr[<<t, d>>] # NoRow}
    IN  IF ds = {} THEN [latest_close |-> NoRow, latest_date |-> NoDate, prev_close |-> NoRow]
        ELSE LET d1 == SetMax(ds)
                 rest == ds \ {d1}
             IN  [latest_close |-> pr[<<t, d1>>], latest_date |-> d1,
                  prev_close |-> IF rest = {} THEN NoRow ELSE pr[<<t, SetMax(rest)>>]]

\* The dict get_positions appends for one open ticker, its weight still 0.
Position(h, t, pl) ==
    LET has == pl.latest_close # NoRow
        current_price == Dec(pl.latest_close)
        prev_close == IF pl.prev_close # NoRow THEN Dec(pl.prev_close) ELSE current_price
        pru == IF DecGt(h.qty, Zero) THEN DecDiv(h.total_cost, h.qty) ELSE Zero
    IN  [ticker_id |-> t,
         quantity |-> h.qty,
         pru |-> pru,
         current_price |-> pl.latest_close,
         price_date |-> pl.latest_date,
         market_value |-> IF has THEN DecMul(h.qty, current_price) ELSE Zero,
         invested |-> h.total_cost,
         unrealized_pnl |-> IF has THEN DecMul(DecSub(current_price, pru), h.qty) ELSE Zero,
         unrealized_pnl_pct |->
             IF has /\ DecGt(pru, Zero)
             THEN DecMul(DecSub(DecDiv(current_price, pru), Dec(1)), Dec(100)) ELSE Zero,
         realized_pnl |-> h.realized_pnl,
         daily_change |->
             IF has
             THEN DecMul(DecDiv(DecSub(current_price, prev_close), prev_close), Dec(100))
             ELSE Zero,
         weight |-> Zero]

\* A position list that leaves out the open tickers without a price row.
RECURSIVE PositionListPriced(_, _, _)
PositionListPriced(keys, holdings, pr) ==
    IF keys = <<>> THEN <<>>
    ELSE LET done == PositionListPriced(SubSeq(keys, 1, Len(keys) - 1), holdings, pr)
             t == keys[Len(keys)]
         IN  IF /\ DecGt(holdings[t].qty, Epsilon)
                /\ PriceLookup(pr, t).latest_close # NoRow
             THEN Append(done, Position(holdings[t], t, PriceLookup(pr, t)))
             ELSE done

\* The position list in the order of open_tids.
RECURSIVE PositionList(_, _, _)
PositionList(keys, holdings, pr) ==
    IF keys = <<>> THEN <<>>
    ELSE LET done == PositionList(SubSeq(keys, 1, Len(keys) - 1), holdings, pr)
             t == keys[Len(keys)]
         IN  IF DecGt(holdings[t].qty, Epsilon)
             THEN Append(done, Position(holdings[t], t, PriceLookup(pr, t)))
             ELSE done

\* total_portfolio_value: the running sum of the market values.
RECURSIVE TotalValue(_)
TotalValue(ps) ==
    IF ps = <<>> THEN Zero
    ELSE DecAdd(TotalValue(SubSeq(ps, 1, Len(ps) - 1)), ps[Len(ps)].market_value)

\* A weight that is the share of the total, not a percentage.
WeightAsShare(market_value, total) ==
    IF DecGt(total, Zero) THEN DecDiv(market_value, total) ELSE Zero

\* p["weight"] of the weight loop.
Weight(market_value, total) ==
    IF DecGt(total, Zero) THEN DecMul(DecDiv(market_value, total), Dec(100)) ELSE Zero

\* positions.sort(key=weight, reverse=True): a stable sort, rows of one
\* weight keep their order.
RECURSIVE SortByWeight(_)
SortByWeight(ps) ==
    IF ps = <<>> THEN <<>>
    ELSE LET i == CHOOSE k \in 1..Len(ps) :
                     /\ \A j \in 1..Len(ps) : DecGe(ps[k].weight, ps[j].weight)
                     /\ \A j \in 1..(k - 1) : ps[j].weight # ps[k].weight
         IN  <<ps[i]>> \o SortByWeight(RemoveAt(ps, i))

\* get_positions(user_id, _holdings=holdings), keys being the keys of the
\* holdings dict in insertion order.
Positions(keys, holdings, pr) ==
    LET ps == PositionList(keys, holdings, pr)
        total == TotalValue(ps)
    IN  SortByWeight([i \in 1..Len(ps) |->
                         [ps[i] EXCEPT !.weight = Weight(ps[i].market_value, total)]])

\* get_positions(user_id): _compute_holdings, then the position list.
get_positions ==
    /\ \E transactions \in HoldingsQuery(txs) :
         LET holdings == HoldingsFold(transactions)
         IN  returned' = [op |-> "positions", holdings |-> holdings,
                          positions |-> Positions(KeyOrder(transactions), holdings, prices)]
    /\ last' = Did("positions", NoCall)
    /\ UNCHANGED <<foldvars, concvars, dividends, today, txs, prices, snaps, tasks, tx_seq>>

\* The forms of the logs get_positions is read over: trades of the first day.
PosForms ==
    {f \in FormRows(PosTickers, Quantities, FormPrices, FormFees) : f.date = 1}

\* The price tables get_positions is read over.
PosPriceTables ==
    {pr \in [PosTickers \X Days -> CloseValues \cup {NoRow}] :
        /\ PriceRows(pr) <= MaxPosPrices
        /\ \A k \in PosTickers \X Days : pr[k] # NoRow => k[2] >= FirstPriceDay}

\* get_positions as a function of its inputs: any stored log, any price
\* table.
InitPos ==
    /\ flog = <<>>
    /\ fholdings = EmptyHoldings
    /\ today = MaxDay
    /\ txs \in SeqsUpTo(PosForms, MaxPos)
    /\ prices \in PosPriceTables
    /\ snaps = <<>>
    /\ tasks = <<>>
    /\ tx_seq = Len(txs)
    /\ last = Did("init", NoCall)
    /\ IdleConc
    /\ NoViews

\* One reading of a log and a price table.
PosRead ==
    /\ returned = NoResult
    /\ get_positions

NextPos == PosRead

SpecPos == InitPos /\ [][NextPos]_vars

\* --------------------------------------------------------- _compute_holdings
\* _compute_holdings(user_id): the fold over the rows its query returns.
_compute_holdings ==
    /\ \E transactions \in HoldingsQuery(txs) :
         returned' = [op |-> "holdings", holdings |-> HoldingsFold(transactions)]
    /\ last' = Did("holdings", NoCall)
    /\ UNCHANGED <<foldvars, concvars, dividends, today, txs, prices, snaps, tasks, tx_seq>>

\* _compute_holdings as a function of the stored log, the rows in the order
\* they were created.
InitHold ==
    /\ flog = <<>>
    /\ fholdings = EmptyHoldings
    /\ today = MaxDay
    /\ txs \in SeqsUpTo(DayForms, MaxTx)
    /\ prices = NoPrices
    /\ snaps = <<>>
    /\ tasks = <<>>
    /\ tx_seq = Len(txs)
    /\ last = Did("init", NoCall)
    /\ IdleConc
    /\ NoViews

NextHold == _compute_holdings

SpecHold == InitHold /\ [][NextHold]_vars

\* ------------------------------------------------- _compute_total_dividends
MaxDivs == 2   \* Dividend rows

DivAmounts == {1, 2}

DividendTables(n) ==
    {dv \in [Tickers \X Days -> DivAmounts \cup {NoRow}] :
        Cardinality({k \in DOMAIN dv : dv[k] # NoRow}) <= n}

\* The Dividend rows of the tickers, in some order.
RECURSIVE SeqOfSet(_)
SeqOfSet(S) ==
    IF S = {} THEN <<>>
    ELSE LET x == CHOOSE y \in S : TRUE IN <<x>> \o SeqOfSet(S \ {x})

DividendRows(dv, ticker_ids) ==
    SeqOfSet({[ticker_id |-> k[1], date |-> k[2], amount_per_share |-> dv[k]] :
                 k \in {j \in DOMAIN dv : dv[j] # NoRow /\ j[1] \in ticker_ids}})

\* cum_holdings[ticker_id]: one (date, cumulative quantity) entry per
\* transaction of the ticker, in the order of the query.
RECURSIVE CumHoldings(_, _)
CumHoldings(transactions, ticker_id) ==
    IF transactions = <<>> THEN <<>>
    ELSE LET done == CumHoldings(SubSeq(transactions, 1, Len(transactions) - 1), ticker_id)
             tx == transactions[Len(transactions)]
             running == IF done = <<>> THEN Zero ELSE done[Len(done)].qty
         IN  IF tx.ticker_id # ticker_id THEN done
             ELSE Append(done,
                         [date |-> tx.date,
                          qty |-> IF tx.type = "BUY" THEN DecAdd(running, Dec(tx.quantity))
                                  ELSE IF tx.type = "SELL"
                                       THEN DecSub(running, Dec(tx.quantity))
                                       ELSE running])

\* bisect_left(dates, d) on a sorted list: the entries before d.
BisectLeft(entries, d) == Cardinality({i \in 1..Len(entries) : entries[i].date < d})

\* bisect_right(dates, d) on a sorted list: the entries dated d or earlier.
BisectRight(entries, d) == Cardinality({i \in 1..Len(entries) : entries[i].date <= d})

\* The loop over the dividends of _compute_total_dividends.
RECURSIVE DividendTotal(_, _)
DividendTotal(divs, transactions) ==
    IF divs = <<>> THEN Zero
    ELSE LET total == DividendTotal(SubSeq(divs, 1, Len(divs) - 1), transactions)
             div == divs[Len(divs)]
             entries == CumHoldings(transactions, div.ticker_id)
             idx == BisectRight(entries, div.date)
         IN  IF entries = <<>> \/ idx < 1 THEN total
             ELSE IF DecGt(entries[idx].qty, Zero)
                  THEN DecAdd(total, DecMul(entries[idx].qty, Dec(div.amount_per_share)))
                  ELSE total

\* _compute_total_dividends(user_id, ticker_ids) as get_portfolio_summary
\* calls it, ticker_ids being the keys of the holdings.
_compute_total_dividends ==
    /\ LET ticker_ids == AllTickerIds(txs)
       IN  \E transactions \in OrderByDate(txs),
              divs \in OrderByDate(DividendRows(dividends, ticker_ids)) :
             returned' = [op |-> "dividends",
                          total |-> IF ticker_ids = {} THEN Zero
                                    ELSE DividendTotal(divs, transactions)]
    /\ last' = Did("dividends", NoCall)
    /\ UNCHANGED <<foldvars, concvars, dividends, today, txs, prices, snaps, tasks, tx_seq>>

\* One reading of a log and a dividend table.
DivRead ==
    /\ returned = NoResult
    /\ _compute_total_dividends

\* _compute_total_dividends as a function of its inputs: any stored log, any
\* dividend table.
InitDiv ==
    /\ flog = <<>>
    /\ fholdings = EmptyHoldings
    /\ today = MaxDay
    /\ txs \in SeqsUpTo(DayForms, MaxTx)
    /\ prices = NoPrices
    /\ snaps = <<>>
    /\ tasks = <<>>
    /\ tx_seq = Len(txs)
    /\ last = Did("init", NoCall)
    /\ IdleConc
    /\ dividends \in DividendTables(MaxDivs)
    /\ returned = NoResult

NextDiv == DivRead

SpecDiv == InitDiv /\ [][NextDiv]_vars

\* ---------------------------------------------------- get_portfolio_summary
\* sum(...) over a list of decimals, left to right.
RECURSIVE SumSeq(_)
SumSeq(xs) ==
    IF xs = <<>> THEN Zero
    ELSE DecAdd(SumSeq(SubSeq(xs, 1, Len(xs) - 1)), xs[Len(xs)])

\* A realized total over the open positions only.
RealizedOfOpen(keys, holdings) ==
    LET open == SelectSeq(keys, LAMBDA t : DecGt(holdings[t].qty, Epsilon))
    IN  SumSeq([i \in 1..Len(open) |-> holdings[open[i]].realized_pnl])

\* sum(h["realized_pnl"] for h in all_holdings.values())
RealizedOf(keys, holdings) ==
    SumSeq([i \in 1..Len(keys) |-> holdings[keys[i]].realized_pnl])

\* The dict get_portfolio_summary returns, from the holdings (their keys in
\* insertion order), the price table and the total of
\* _compute_total_dividends.
PortfolioSummary(keys, holdings, pr, total_dividends) ==
    LET positions == Positions(keys, holdings, pr)
        n == Len(positions)
        total_value == SumSeq([i \in 1..n |-> positions[i].market_value])
        total_invested == SumSeq([i \in 1..n |-> positions[i].invested])
        total_unrealized == SumSeq([i \in 1..n |-> positions[i].unrealized_pnl])
        total_realized == RealizedOf(keys, holdings)
    IN  [op |-> "summary",
         holdings |-> holdings,
         positions |-> positions,
         total_value |-> total_value,
         total_invested |-> total_invested,
         total_unrealized_pnl |-> total_unrealized,
         total_unrealized_pnl_pct |->
             IF DecGt(total_invested, Zero)
             THEN DecMul(DecSub(DecDiv(total_value, total_invested), Dec(1)), Dec(100))
             ELSE Zero,
         total_realized_pnl |-> total_realized,
         total_dividends |-> total_dividends,
         total_return |-> DecAdd(DecAdd(total_unrealized, total_realized), total_dividends),
         num_positions |-> n]

\* get_portfolio_summary(user_id): _compute_holdings once, get_positions on
\* its result, _compute_total_dividends with its own query.
get_portfolio_summary ==
    /\ \E transactions \in HoldingsQuery(txs), again \in OrderByDate(txs) :
         LET holdings == HoldingsFold(transactions)
             ticker_ids == DOMAIN holdings
         IN  \E divs \in OrderByDate(DividendRows(dividends, ticker_ids)) :
               returned' = PortfolioSummary(
                               KeyOrder(transactions), holdings, prices,
                               IF ticker_ids = {} THEN Zero
                               ELSE DividendTotal(divs, again))
    /\ last' = Did("summary", NoCall)
    /\ UNCHANGED <<foldvars, concvars, dividends, today, txs, prices, snaps, tasks, tx_seq>>

\* One reading of a log, a price table and a dividend table.
SumRead ==
    /\ returned = NoResult
    /\ get_portfolio_summary

\* The forms of the logs the summary is read over: trades of the days
\* before the last.
SumForms ==
    {f \in FormRows(Tickers, Quantities, FormPrices, FormFees) : f.date < MaxDay}

\* The price tables the summary is read over: at most a close of the last
\* day.
SumPriceTables ==
    {pr \in PriceTables(1) : \A k \in DOMAIN pr : pr[k] # NoRow => k[2] = MaxDay}

\* get_portfolio_summary as a function of its inputs: any stored log, a
\* price row, a dividend row.
InitSum ==
    /\ flog = <<>>
    /\ fholdings = EmptyHoldings
    /\ today = MaxDay
    /\ txs \in SeqsUpTo(SumForms, MaxPos)
    /\ prices \in SumPriceTables
    /\ snaps = <<>>
    /\ tasks = <<>>
    /\ tx_seq = Len(txs)
    /\ last = Did("init", NoCall)
    /\ IdleConc
    /\ dividends \in DividendTables(1)
    /\ returned = NoResult

NextSum == SumRead

SpecSum == InitSum /\ [][NextSum]_vars

\* -------------------------------------------- the web layer with the dashboard
\* The requests of one user: the transaction forms with their threads, and
\* the dashboard, which calls compute_snapshots or ensure_snapshots_uptodate.
\* The calendar day of the dashboard requests: forms dated up to it and one
\* day after it can be stored.
DashDay == MaxDay - 1

InitDash ==
    /\ flog = <<>>
    /\ fholdings = EmptyHoldings
    /\ today = DashDay
    /\ txs = <<>>
    /\ prices = NoPrices
    /\ snaps = <<>>
    /\ tasks = <<>>
    /\ tx_seq = 0
    /\ last = Did("init", NoCall)
    /\ IdleConc
    /\ NoViews

NextDash ==
    \/ NextTx
    \/ ComputeSnapshots
    \/ ensure_snapshots_uptodate

SpecDash == InitDash /\ [][NextDash]_vars

\* ------------------------------------------ the ledger read by the positions
\* _compute_holdings once over the log the forms and deletions have left.
HoldRead == returned = NoResult /\ _compute_holdings

NextLedger ==
    \/ NextTx
    \/ HoldRead

SpecLedger == InitDash /\ [][NextLedger]_vars

\* --------------------------------------------- the cached and the live tier
\* compute_snapshots(user_id) on an empty snapshot table.
TierCompute ==
    /\ snaps = <<>>
    /\ \E transactions \in OrderByDate(txs) : ComputeSnapshotsAt(NoDate, transactions)

\* get_portfolio_summary(user_id) right after it.
TierSummary ==
    /\ last.op = "compute"
    /\ SumRead

\* The price tables of a day: closes are stored for days up to today.
TierPriceTables(end) ==
    {pr \in PriceTables(1) : \A k \in DOMAIN pr : pr[k] # NoRow => k[2] <= end}

\* Any day, any stored log, a price row, no dividend.
InitTier ==
    /\ flog = <<>>
    /\ fholdings = EmptyHoldings
    /\ today \in Days
    /\ txs \in SeqsUpTo(TxForms, MaxTx)
    /\ prices \in TierPriceTables(today)
    /\ snaps = <<>>
    /\ tasks = <<>>
    /\ tx_seq = Len(txs)
    /\ last = Did("init", NoCall)
    /\ IdleConc
    /\ NoViews

NextTier ==
    \/ TierCompute
    \/ TierSummary

SpecTier == InitTier /\ [][NextTier]_vars
\* ------------------------------------------------------------------ claims
\* No SELL of the sequence exceeds the quantity held for its security when
\* it is folded (exact integer sums of the rows before it).
NoOversell(transactions) ==
    \A i \in 1..Len(transactions) :
        transactions[i].type = "SELL" =>
            transactions[i].quantity <=
                _quantity_held(SubSeq(transactions, 1, i - 1), transactions[i].ticker_id)

C2_OversellRejected == \E transactions \in OrderByDate(txs) : NoOversell(transactions)

\* The dates of the snapshot rows are pairwise different.
UniqueDates(rows) ==
    \A i, j \in 1..Len(rows) : rows[i].date = rows[j].date => i = j

\* Every row stays at its place with its date; the rows added are one per
\* date that had none.
UpsertedInPlace(before, after) ==
    /\ Len(after) >= Len(before)
    /\ \A i \in 1..Len(before) : after[i].date = before[i].date
    /\ \A i \in (Len(before) + 1)..Len(after) : after[i].date \notin RowDates(before)

\* C3: after any sequence of compute_snapshots and
\* ensure_snapshots_uptodate calls the snapshot table holds at most one row
\* per date, and a call that rebuilds a date that has a row overwrites that
\* row in place and adds no row for it.
C3_SnapshotUniqueness ==
    /\ [](UniqueDates(snaps))
    /\ [][UpsertedInPlace(snaps, snaps')]_vars

\* A date was rebuilt: the row inserted first is the last day's, so the
\* call that added the earlier days rebuilt it, and a row holds a value.
C3_Witness ==
    /\ last.op = "compute"
    /\ Len(snaps) = MaxDay
    /\ snaps[1].date = MaxDay
    /\ \E i \in 1..Len(snaps) : DecGt(snaps[i].total_value, Zero)

\* The row of date d (there is one).
RowOf(rows, d) == rows[CHOOSE i \in 1..Len(rows) : rows[i].date = d]

\* The days compute_snapshots(from_date) builds over the stored rows when
\* today is `end`.
BuildRange(stored, from_date, end) ==
    IF stored = <<>> THEN {}
    ELSE {d \in Days :
            /\ d >= (IF from_date # NoDate THEN from_date
                     ELSE SetMin({stored[i].date : i \in 1..Len(stored)}))
            /\ d <= end}

\* C4: after compute_snapshots(user, from_date) for a user with a
\* transaction and from_date <= today, a row exists for every calendar day
\* of [from_date, today] (from the first trade date when from_date is None),
\* days without any price row included.
C4_RowForEveryDay ==
    last.op = "compute" =>
        \A d \in BuildRange(txs, last.from, today) : d \in RowDates(snaps)

\* A build wrote the row of a day on which no security has a price row,
\* while another day has one.
C4_Witness ==
    /\ last.op = "compute"
    /\ \E d \in BuildRange(txs, last.from, today) :
          /\ d \in RowDates(snaps)
          /\ \A t \in Tickers : prices[<<t, d>>] = NoRow
    /\ \E k \in DOMAIN prices : prices[k] # NoRow

\* Per ticker with a price row dated d or earlier, the close of the latest
\* such row.
LatestClose(pr, tids, d) ==
    LET upto(t) == {x \in Days : x <= d /\ pr[<<t, x>>] # NoRow}
    IN  [t \in {u \in tids : upto(u) # {}} |-> pr[<<t, SetMax(upto(t))>>]]

\* The from_date compute_snapshots starts at.
StartOf(transactions, from_date) ==
    IF from_date # NoDate THEN from_date ELSE transactions[1].date

\* C5: in a build, the price used for day d and a held security is the
\* close of the security's latest price row dated d or earlier (rows before
\* from_date included), and 0 without such a row: the day's total_value is
\* the sum of quantity x that price over the securities held.
C5_ForwardFill ==
    last.op = "compute" =>
        \E transactions \in OrderByDate(txs) :
            \A d \in BuildRange(txs, last.from, today) :
                LET prefix == PrefixUpTo(transactions, d)
                    lkp == LatestClose(prices, AllTickerIds(transactions), d)
                IN  /\ d \in RowDates(snaps)
                    /\ RowOf(snaps, d).total_value =
                          SnapTotals(KeyOrder(prefix), SnapFold(prefix), lkp).total_value

\* A build starting on the last day valued a holding with a close that was
\* posted before that day: the day itself has no price row.
C5_Witness ==
    /\ last = Did("compute", MaxDay)
    /\ Len(snaps) = 1
    /\ DecGt(snaps[1].total_value, Zero)
    /\ \A t \in Tickers : prices[<<t, MaxDay>>] = NoRow

\* The transactions dated d or earlier, in the order of the sequence.
RECURSIVE UpToDate(_, _)
UpToDate(transactions, d) ==
    IF transactions = <<>> THEN <<>>
    ELSE IF Head(transactions).date <= d
         THEN <<Head(transactions)>> \o UpToDate(Tail(transactions), d)
         ELSE UpToDate(Tail(transactions), d)

\* The sum of f over the set S.
RECURSIVE DecSum(_, _)
DecSum(S, f) ==
    IF S = {} THEN Zero
    ELSE LET x == CHOOSE y \in S : TRUE
         IN  DecAdd(DecSum(S \ {x}, f), f[x])

\* C6: in a build, day d's row has total_invested the sum of total_cost, and
\* total_value the sum of qty x last known price, over the securities with
\* qty > 0 in the holdings _compute_holdings' fold yields over exactly the
\* transactions dated d or earlier.
C6_DayRowFromAggregatorFold ==
    last.op = "compute" =>
        \E transactions \in OrderByDate(txs) :
            \A d \in BuildRange(txs, last.from, today) :
                LET hs == HoldingsFold(UpToDate(transactions, d))
                    held == {t \in DOMAIN hs : DecGt(hs[t].qty, Zero)}
                    lkp == LastKnownPrice(prices, AllTickerIds(transactions),
                                          StartOf(transactions, last.from), today, d)
                IN  /\ d \in RowDates(snaps)
                    /\ RowOf(snaps, d).total_invested =
                          DecSum(held, [t \in held |-> hs[t].total_cost])
                    /\ RowOf(snaps, d).total_value =
                          DecSum(held, [t \in held |-> DecMul(hs[t].qty, PriceOf(lkp, t))])

\* A build wrote two days with different positive amounts invested: a
\* transaction dated between them counts for the later day only.
C6_Witness ==
    /\ last.op = "compute"
    /\ \E i, j \in 1..Len(snaps) :
          /\ snaps[i].date < snaps[j].date
          /\ DecGt(snaps[i].total_invested, Zero)
          /\ DecGt(snaps[j].total_invested, snaps[i].total_invested)
          /\ DecGt(snaps[j].total_value, snaps[i].total_value)

\* C7: after ensure_snapshots_uptodate for a user whose first trade date
\* is not after today, a row exists for every date of [first trade date,
\* today], whichever of them were missing before the call.
C7_EnsureFillsEveryGap ==
    last.op = "ensure" =>
        \A d \in BuildRange(txs, NoDate, today) : d \in RowDates(snaps)

\* The call filled a gap in the middle: it recomputed from day 2, whose
\* row was inserted after those of days 1 and 3.
C7_Witness ==
    /\ last = Did("ensure", 2)
    /\ \E i \in 1..Len(txs) : txs[i].date = 1
    /\ Len(snaps) = 3
    /\ snaps[1].date = 1
    /\ snaps[2].date = 3
    /\ snaps[3].date = 2

\* The rows the builder computes for day d from the stored rows and prices.
ValuationsOf(stored, pr, d, end) ==
    {SnapshotOfDay(transactions, pr, d, end, d) : transactions \in OrderByDate(stored)}

\* C8: ensure_snapshots_uptodate always refreshes today's snapshot, also
\* when no date is missing: after the call today's row equals the valuation
\* of the current transactions and prices.
C8_TodayAlwaysRefreshed ==
    (last.op = "ensure" /\ today \in BuildRange(txs, NoDate, today)) =>
        /\ today \in RowDates(snaps)
        /\ RowOf(snaps, today) \in ValuationsOf(txs, prices, today, today)

\* C9: a second ensure_snapshots_uptodate call right after the first, with
\* the same transactions and prices, leaves the rows the first call left.
C9_EnsureIdempotent ==
    last.op = "ensure" =>
        \A first \in OrderByDate(txs) :
            EnsureResults(snaps, txs, prices, EnsureFrom(snaps, first, today), today)
                = {snaps}

\* The first call had rows to write: it recomputed from a missing date
\* before today.
C9_Witness ==
    /\ last.op = "ensure"
    /\ last.from \in Days
    /\ last.from < today
    /\ Len(snaps) >= 2

\* C10: after delete_transaction and its background recompute, with no
\* other activity, every snapshot row dated from the deleted transaction's
\* trade date through today equals the valuation of the remaining log,
\* empty or not.
C10_DeleteRecomputesFromDate ==
    (last.op = "background_delete" /\ tasks = <<>>) =>
        \A k \in 1..Len(snaps) :
            (snaps[k].date >= last.from /\ snaps[k].date <= today) =>
                snaps[k] \in ValuationsOf(txs, prices, snaps[k].date, today)


\* C11: the snapshot recomputes of one user never run side by side: at most
\* one compute_snapshots run is between its queries and its commit.
C11_RecomputeMutualExclusion == Len(runs) <= 1

\* C13: once every started recompute has finished, every snapshot row (all
\* are dated from the earliest mutated trade date through today) equals the
\* valuation of the transaction log as it then stands, whatever the
\* interleaving of the add and delete requests with the recomputes.
C13_EventualConsistency ==
    (tasks = <<>> /\ runs = <<>>) =>
        \A k \in 1..Len(snaps) :
            snaps[k] \in ValuationsOf(txs, prices, snaps[k].date, today)

\* Every row of the batch is in the table as the batch computed it.
BatchWritten(rows, upserts) ==
    \A k \in 1..Len(upserts) :
        /\ upserts[k].date \in RowDates(rows)
        /\ RowOf(rows, upserts[k].date) = upserts[k]

\* C14: the upsert of one compute_snapshots run is all-or-nothing: a step
\* that changes the snapshot table leaves every day of one run's window
\* written, also when persistence fails during the batch; no state reads a
\* partially written window.
C14_UpsertAllOrNothing ==
    [][snaps' # snaps =>
          \E j \in 1..Len(runs) : BatchWritten(snaps', runs[j].upserts)]_vars

\* A batch of two days or more failed over a table that holds rows.
C14_Witness ==
    /\ last.op = "commit_failed"
    /\ last.from < today
    /\ snaps # <<>>

\* C12: at most one run_backfill_async run is in progress; a call made while
\* a run is in progress returns without starting a worker (the call that
\* was skipped left the one worker and its lock as they were).
C12_SingleBackfillRun ==
    /\ workers <= 1
    /\ backfill_lock = (workers = 1)
    /\ (last.op = "backfill_skipped" => workers = 1)

\* A call was made while a run was in progress, pending requests waiting.
C12_Witness ==
    /\ last.op = "backfill_skipped"
    /\ Pending(queue) # {}

\* Exact arithmetic on decimals: no rounding to the context's precision.
XAdd(a, b) ==
    LET e == Min2(a.e, b.e)
    IN  Norm(a.c * Pow10(a.e - e) + b.c * Pow10(b.e - e), e)

XSub(a, b) == XAdd(a, DecNeg(b))

XMul(a, b) == Norm(a.c * b.c, a.e + b.e)

XAbs(a) == IF a.c < 0 THEN DecNeg(a) ELSE a

\* The exact sum of the weights of a position list.
RECURSIVE WeightSum(_)
WeightSum(ps) ==
    IF ps = <<>> THEN Zero
    ELSE XAdd(WeightSum(Tail(ps)), Head(ps).weight)

ByDateThenCreation(rows) ==
    LET n == Len(rows)
        g == CHOOSE f \in Perms(n) :
                 \A i, j \in 1..n :
                     i < j => \/ rows[f[i]].date < rows[f[j]].date
                              \/ /\ rows[f[i]].date = rows[f[j]].date
                                 /\ f[i] < f[j]
    IN  [i \in 1..n |-> rows[g[i]]]

\* C15: the fold applies the transactions in trade_date order with ties
\* broken by creation order, so what _compute_holdings returns is a function
\* of the stored log: the fold of the rows by date, then by creation.
C15_TieBreakByCreation ==
    returned.op = "holdings" =>
        returned.holdings = HoldingsFold(ByDateThenCreation(txs))

DistinctDates(rows) ==
    \A i, j \in 1..Len(rows) : rows[i].date = rows[j].date => i = j

\* The logs other histories leave with the same set of rows: the rows in
\* any order of creation.
SameRowSets(rows) ==
    {[i \in 1..Len(rows) |-> rows[f[i]]] : f \in Perms(Len(rows))}

\* C16: for stored transactions of pairwise distinct trade dates, what
\* _compute_holdings returns (quantity, total_cost and realized_pnl of every
\* security) is what it returns over every log that holds the same set of
\* rows, whatever the order in which the rows were created.
C16_MutationOrderIndependence ==
    (returned.op = "holdings" /\ DistinctDates(txs)) =>
        \A other \in SameRowSets(txs) :
            \A transactions \in HoldingsQuery(other) :
                HoldingsFold(transactions) = returned.holdings

\* A SELL created before the earlier-dated BUY of its security.
C16_Witness ==
    /\ returned.op = "holdings"
    /\ Len(txs) = 2
    /\ txs[1].type = "SELL"
    /\ txs[2].type = "BUY"
    /\ txs[1].ticker_id = txs[2].ticker_id
    /\ txs[2].date < txs[1].date

C18_EveryTradedSecurity ==
    DOMAIN fholdings = AllTickerIds(flog)

\* A position bought and sold in full, its entry kept with quantity 0 next
\* to an open one.
C18_Witness ==
    /\ \E t \in DOMAIN fholdings :
          /\ fholdings[t].qty = Zero
          /\ \E i \in 1..Len(flog) : flog[i].ticker_id = t /\ flog[i].type = "BUY"
    /\ \E t \in DOMAIN fholdings : DecGt(fholdings[t].qty, Zero)

\* The dividend events of the tickers.
DividendEvents(dv, ticker_ids) ==
    {k \in DOMAIN dv : dv[k] # NoRow /\ k[1] \in ticker_ids}

\* The sum over a set of events of amount_per_share x Q, Q being the
\* cumulative quantity of the event's ticker over the rows dated the event's
\* date or earlier, counted when Q > 0.
RECURSIVE Entitlement(_, _, _)
Entitlement(events, dv, rows) ==
    IF events = {} THEN 0
    ELSE LET k == CHOOSE x \in events : TRUE
             Q == _quantity_held(UpToDate(rows, k[2]), k[1])
         IN  Entitlement(events \ {k}, dv, rows) + (IF Q > 0 THEN dv[k] * Q ELSE 0)

\* C19: the total _compute_total_dividends returns is the sum, over the
\* dividend events of every security of the user's transactions, of
\* amount_per_share x Q, with Q the cumulative quantity (BUY adds, SELL
\* subtracts) over the transactions of the security dated the event's date
\* or earlier, counted only when Q > 0; an event before the security's first
\* transaction adds 0.
C19_DividendEntitlement ==
    returned.op = "dividends" =>
        returned.total =
            Dec(Entitlement(DividendEvents(dividends, AllTickerIds(txs)), dividends, txs))

\* An event on the date of a purchase is paid, an event before the first
\* transaction of the security is not.
C19_Witness ==
    /\ returned.op = "dividends"
    /\ \E t \in Tickers, d \in Days :
          /\ dividends[<<t, d>>] # NoRow
          /\ \E i \in 1..Len(txs) :
                txs[i].ticker_id = t /\ txs[i].type = "BUY" /\ txs[i].date = d
          /\ \E d0 \in Days :
                /\ dividends[<<t, d0>>] # NoRow
                /\ \A i \in 1..Len(txs) : txs[i].ticker_id = t => txs[i].date > d0
          /\ returned.total = DecMul(Dec(dividends[<<t, d>>]),
                                     Dec(_quantity_held(UpToDate(txs, d), t)))
    /\ DecGt(returned.total, Zero)

\* The positions of a list whose ticker has a price row.
Priced(ps) == SelectSeq(ps, LAMBDA p : p.current_price # NoRow)

\* C21: an open security (quantity above the 0.0001 threshold) without a
\* price row is returned by get_positions as a position with market_value 0,
\* unrealized P&L 0, unrealized P&L percentage 0 and daily change 0, and it
\* adds 0 to the portfolio total: the weights of the priced positions are
\* their shares of the priced positions' total.
C21_UnpricedPosition ==
    returned.op = "positions" =>
        LET ps == returned.positions
            hs == returned.holdings
        IN  /\ \A t \in DOMAIN hs :
                  (DecGt(hs[t].qty, Epsilon) /\ PriceLookup(prices, t).latest_close = NoRow) =>
                      \E i \in 1..Len(ps) :
                          /\ ps[i].ticker_id = t
                          /\ ps[i].quantity = hs[t].qty
                          /\ ps[i].market_value = Zero
                          /\ ps[i].unrealized_pnl = Zero
                          /\ ps[i].unrealized_pnl_pct = Zero
                          /\ ps[i].daily_change = Zero
            /\ \A i \in 1..Len(ps) :
                  ps[i].weight = Weight(ps[i].market_value, TotalValue(Priced(ps)))

\* A position without a price row returned next to a priced one.
C21_Witness ==
    /\ returned.op = "positions"
    /\ \E i, j \in 1..Len(returned.positions) :
          /\ returned.positions[i].current_price = NoRow
          /\ returned.positions[j].current_price # NoRow
          /\ DecGt(returned.positions[j].weight, Zero)

\* C22: in what get_portfolio_summary returns, total_realized_pnl is the sum
\* of realized_pnl over every security of the holdings (open or not),
\* total_invested the sum of total_cost over the open positions only, and
\* total_return = total_unrealized_pnl + total_realized_pnl + total_dividends.
C22_SummaryTotals ==
    returned.op = "summary" =>
        LET hs == returned.holdings
            open == {t \in DOMAIN hs : DecGt(hs[t].qty, Epsilon)}
        IN  /\ \E transactions \in OrderByDate(txs) : hs = HoldingsFold(transactions)
            /\ returned.total_realized_pnl =
                  DecSum(DOMAIN hs, [t \in DOMAIN hs |-> hs[t].realized_pnl])
            /\ returned.total_invested = DecSum(open, [t \in open |-> hs[t].total_cost])
            /\ returned.total_return =
                  DecAdd(DecAdd(returned.total_unrealized_pnl, returned.total_realized_pnl),
                         returned.total_dividends)

\* A closed position with a realized result next to an open one that was
\* paid a dividend.
C22_Witness ==
    /\ returned.op = "summary"
    /\ returned.num_positions = 1
    /\ DecGt(returned.total_dividends, Zero)
    /\ \E t \in DOMAIN returned.holdings :
          /\ returned.holdings[t].qty = Zero
          /\ returned.holdings[t].realized_pnl # Zero

\* C23: for a user without transactions compute_snapshots (any from_date)
\* and ensure_snapshots_uptodate are no-ops: the step of either call leaves
\* the snapshot table as it was, rows stored earlier included.
C23_NoTransactionsNoOp ==
    [][(txs' = <<>> /\ last'.op \in {"compute", "ensure", "background_delete"}) =>
          snaps' = snaps]_vars

\* compute_snapshots from a date over an empty log and a table that holds
\* rows.
C23_Witness ==
    /\ txs = <<>>
    /\ snaps # <<>>
    /\ last.op = "compute"
    /\ last.from \in Days

\* C24: the fold enforces no bounds: a SELL of s shares folded when the
\* quantity held q has 0 < q < s is applied in full, the row is folded
\* like any other and the quantity of the security is q - s, below 0.
C24_OversellAppliedInFull ==
    LET n == Len(flog)
        tx == flog[n]
        t == tx.ticker_id
        before == HoldingsFold(SubSeq(flog, 1, n - 1))
    IN  (/\ n > 0
         /\ tx.type = "SELL"
         /\ t \in DOMAIN before
         /\ DecGt(before[t].qty, Zero)
         /\ DecGt(Dec(tx.quantity), before[t].qty)) =>
            /\ fholdings[t].qty = XSub(before[t].qty, Dec(tx.quantity))
            /\ DecGt(Zero, fholdings[t].qty)
            /\ (\/ fholdings[t].realized_pnl # before[t].realized_pnl
                \/ fholdings[t].total_cost # before[t].total_cost)

\* A SELL of 3 shares folded over 1 share held.
C24_Witness ==
    /\ Len(flog) = 2
    /\ flog[1].type = "BUY" /\ flog[1].quantity = 1
    /\ flog[2].type = "SELL" /\ flog[2].quantity = MaxQty
    /\ flog[2].ticker_id = flog[1].ticker_id
    /\ fholdings[flog[2].ticker_id].qty = Dec(1 - MaxQty)

\* C25: a SELL folded while the quantity of its security is 0 or less
\* leaves the quantity and total_cost of the security as they were and is
\* recorded in realized_pnl alone: realized_pnl moves whenever the proceeds
\* of the sale net of fees are not 0.
C25_SellAtZeroRealizedOnly ==
    LET n == Len(flog)
        tx == flog[n]
        t == tx.ticker_id
        before == Touch(HoldingsFold(SubSeq(flog, 1, n - 1)), t)
        net == XSub(XMul(Dec(tx.price_per_share), Dec(tx.quantity)), Dec(tx.fees))
    IN  (/\ n > 0
         /\ tx.type = "SELL"
         /\ ~DecGt(before[t].qty, Zero)) =>
            /\ fholdings[t].qty = before[t].qty
            /\ fholdings[t].total_cost = before[t].total_cost
            /\ (net # Zero => fholdings[t].realized_pnl # before[t].realized_pnl)

\* The quantity _compute_holdings reports for a security: 0 for one that
\* has no entry.
ReportedQty(hs, t) == IF t \in DOMAIN hs THEN hs[t].qty ELSE Zero

\* C26: over every log add_transaction and delete_transaction can leave,
\* the quantity _quantity_held gives the sell validation for a security
\* is the quantity _compute_holdings reports for it.
C26_ValidationMatchesFold ==
    last.op = "holdings" =>
        \A t \in Tickers :
            Dec(_quantity_held(txs, t)) = ReportedQty(returned.holdings, t)

\* The cumulative quantity _compute_total_dividends reads at date d: that
\* of the last entry dated d or earlier, 0 when there is none.
QtyReadAt(entries, d) ==
    LET idx == BisectRight(entries, d)
    IN  IF idx < 1 THEN Zero ELSE entries[idx].qty

\* C27: for every stored log, security and date d, the cumulative quantity
\* _compute_total_dividends reads for the security at d is the quantity
\* the fold of _compute_holdings yields for it over the rows dated d or
\* earlier.
C27_DividendQuantityIsFoldQuantity ==
    returned.op = "dividends" =>
        \A transactions \in OrderByDate(txs) : \A t \in Tickers, d \in Days :
            QtyReadAt(CumHoldings(transactions, t), d) =
                ReportedQty(HoldingsFold(PrefixUpTo(transactions, d)), t)

\* C28: right after compute_snapshots(user), transactions and prices being
\* what they were, the snapshot row of today has the total_value and the
\* total_invested get_portfolio_summary returns.
C28_TiersAgree ==
    returned.op = "summary" =>
        \A i \in 1..Len(snaps) :
            snaps[i].date = today =>
                /\ snaps[i].total_value = returned.total_value
                /\ snaps[i].total_invested = returned.total_invested

\* C29: every run run_backfill_async started releases _backfill_lock in
\* the end, also when process_backfill_queue or the recompute raised, and
\* the lock is free whenever no run is in progress: a call made after the
\* previous run has finished takes the lock and is not skipped.
C29_LockAlwaysReleased ==
    /\ backfill_lock ~> ~backfill_lock
    /\ [](workers = 0 => ~backfill_lock)
    /\ [](last.op = "backfill_skipped" => workers > 0)

\* A run in which process_backfill_queue raised has ended and the next
\* call has started a run.
C29_Witness ==
    /\ last.op = "backfill_started"
    /\ \E i \in 1..Len(queue) : queue[i].status = "PROCESSING"
    /\ workers = 1

\* C30: a call of process_backfill_queue sets every row it finds PENDING to
\* PROCESSING and, by the time it ends, normally or by a failure of the
\* fetch, to DONE or FAILED: no row is left in PROCESSING; and in no step
\* does a row that is not PENDING become PENDING again.
C30_QueueProgression ==
    [][/\ Len(queue') >= Len(queue)
       /\ \A i \in 1..Len(queue) :
             /\ queue[i].status # "PENDING" => queue'[i].status # "PENDING"
             /\ (last'.op \in {"backfill_run", "backfill_failed"}
                   /\ queue[i].status = "PENDING") =>
                      queue'[i].status \in {"DONE", "FAILED"}]_vars
====
